---- MODULE Spec2Model ----
(***************************************************************************)
(* sqlow: a dataclass bound to one SQLite table, with create / read /      *)
(* update / delete / count.  Model of src/src/sqlow/__init__.py.           *)
(*                                                                         *)
(* Values.  A value of a field of Model is an integer: None is 0, an id is *)
(* the ordinal of the uuid4 that produced it (uuid4 never repeats a        *)
(* value), a timestamp is a clock reading >= 1, a name is one of NameVals. *)
(* A value of a field of the second record type (DocTypes) is a record     *)
(* tagged with its Python class.                                           *)
(* A mapping (a dict, a **kwargs, a row) is a function from field names.   *)
(* The table is the sequence of its rows in rowid order.                   *)
(*                                                                         *)
(* Specifications.  Spec: whole calls on a table of Model.  TypesSpec: the *)
(* same calls on any of the record types of Schemas.  PageSpec: read and   *)
(* count on tables of up to MaxRows rows.  CodecSpec: create on the        *)
(* second record type.  ConcSpec: two callers, one statement per step.     *)
(***************************************************************************)
EXTENDS Integers, Sequences, FiniteSets, TLC

VARIABLES
    field_map,  \* Table._field_map: the names of the bound type's fields
    table,      \* the rows of the SQLite table, in rowid order
    now,        \* the latest reading of the clock behind _now()
    nextId,     \* ordinal of the next uuid4
    removed,    \* history: ids whose rows a DELETE statement removed
    call,       \* history: the latest public call and its arguments
    ret,        \* history: what that call returned or raised
    table0,     \* history: the table when that call began
    callers     \* two callers at statement granularity: the call each is in

vars == <<field_map, table, now, nextId, removed, call, ret, table0, callers>>

(* ---------------------------------------------------------------- bounds *)
\* uuid4 values drawn in a run, the last reading of the clock, and the
\* positional arguments of one call (a call may add a keyword record to them)
MaxIds == 2
MaxClock == 2
MaxItems == 1
\* rows of a table that is read by pages, the largest page size and the
\* largest page number asked of it
MaxRows == 3
MaxPerPage == 3
MaxPage == 4
\* records created in a table of the second record type
MaxDocs == 1

None == 0
\* per_page: int = 10, the default page size of read
DefaultPerPage == 10
NameVals == {1, 2}
\* An id no uuid4 of the run produces, and a timestamp no clock reading gives:
\* what a caller may put in an auto field of its own accord.
NoSuchId == MaxIds + 1
CallerStamp == MaxClock + 1

(* ------------------------------------------------------------- the types *)
AUTO_FIELDS == {"id", "created_at", "updated_at", "deleted_at"}

\* class Model plus one declared text field, name: str
ModelFields == AUTO_FIELDS \cup {"name"}

\* A dataclass that does not inherit from Model: id: str | None, name: str
PlainFields == {"id", "name"}

\* The record types a table is bound to: Model with all, or all but one, of
\* its timestamps, and the plain type.
Schemas ==
    {ModelFields, ModelFields \ {"updated_at"}, ModelFields \ {"deleted_at"},
     PlainFields}

_has_soft_delete == "deleted_at" \in field_map

EmptyMap == [k \in {} |-> None]

Restrict(m, keys) == [k \in (DOMAIN m) \cap keys |-> m[k]]

Get(m, k) == IF k \in DOMAIN m THEN m[k] ELSE None

Ids(t) == {t[i].id : i \in 1..Len(t)}

RowOf(t, id) == t[CHOOSE i \in 1..Len(t) : t[i].id = id]

(* ------------------------------------------------------ declared types *)
\* A declared field type: a class (get_origin is None), Optional[class], or
\* a parametrised generic such as list[str].
Class(name) == [origin |-> "None", name |-> name, args |-> <<>>]
Optional(name) == [origin |-> "Union", name |-> "Optional", args |-> <<name, "NoneType">>]
Generic(name, arg) == [origin |-> name, name |-> name, args |-> <<arg>>]

\* A second record type, of one field for every recognised type, bare and
\* Optional, and one field declared list[str]:
\*   id: str | None, n: int, s: str, x: float, b: bool, d: dict, l: list,
\*   o_n: Optional[int], ..., o_l: Optional[list], tags: list[str]
DocTypes ==
    [n |-> Class("int"), s |-> Class("str"), x |-> Class("float"),
     b |-> Class("bool"), d |-> Class("dict"), l |-> Class("list"),
     o_n |-> Optional("int"), o_s |-> Optional("str"), o_x |-> Optional("float"),
     o_b |-> Optional("bool"), o_d |-> Optional("dict"), o_l |-> Optional("list"),
     tags |-> Generic("list", "str")]

\* The fields whose values are written as Python terms (see PyNone below);
\* the values of id, of the timestamps and of name are integers.
TermFields == DOMAIN DocTypes

DocFields == {"id"} \cup TermFields

\* f.type of every field of the bound types
FieldTypes ==
    [f \in AUTO_FIELDS |-> Optional("str")] @@ [name |-> Class("str")] @@ DocTypes

\* The class a declared type stands for, lines 60-62: of a type with an
\* origin the first argument that is not NoneType, str when there is none.
inner_type(py_type) ==
    IF py_type.origin # "None"
    THEN IF \E i \in 1..Len(py_type.args) : py_type.args[i] # "NoneType"
         THEN py_type.args[CHOOSE i \in 1..Len(py_type.args) :
                  /\ py_type.args[i] # "NoneType"
                  /\ \A j \in 1..(i-1) : py_type.args[j] = "NoneType"]
         ELSE "str"
    ELSE py_type.name

TYPE_MAP ==
    [int |-> "INTEGER", str |-> "TEXT", float |-> "REAL", bool |-> "INTEGER",
     dict |-> "TEXT", list |-> "TEXT"]

_get_sqlite_type(py_type) ==
    IF inner_type(py_type) \in DOMAIN TYPE_MAP
    THEN TYPE_MAP[inner_type(py_type)] ELSE "TEXT"

_is_json_type(py_type) == inner_type(py_type) \in {"dict", "list"}

_is_bool_type(py_type) == inner_type(py_type) = "bool"

(* ------------------------------------------------------- Python values *)
\* The value of a term field: None, a bool, an int, a float (v is its value
\* in halves), a str, a list, a tuple, a dict (v is its items, in insertion
\* order, each a key and a value), or the str json.dumps returns (text is
\* its tokens).
PyNone == [py |-> "NoneType"]
PyBool(b) == [py |-> "bool", v |-> b]
PyInt(n) == [py |-> "int", v |-> n]
PyFloat(n) == [py |-> "float", v |-> n]
PyStr(str) == [py |-> "str", v |-> str]
PyList(xs) == [py |-> "list", v |-> xs]
PyTuple(xs) == [py |-> "tuple", v |-> xs]
PyDict(items) == [py |-> "dict", v |-> items]
Item(k, v) == [key |-> k, val |-> v]
JsonText(toks) == [py |-> "str", text |-> toks]

\* None, or SQL NULL, as the values of a field write it.
Null(key) == IF key \in TermFields THEN PyNone ELSE None

\* The tokens of a JSON text.
Punct(c) == [tok |-> "punct", v |-> c]
Lit(w) == [tok |-> "lit", v |-> w]
Number(kind, n) == [tok |-> kind, v |-> n]
String(str) == [tok |-> "string", v |-> str]

\* json.dumps: a tuple is written as an array, a key that is an int as the
\* string of its digits.
RECURSIVE json_dumps_value(_), json_dumps_items(_), json_dumps_members(_)
json_dumps_value(value) ==
    CASE value.py = "NoneType" -> <<Lit("null")>>
      [] value.py = "bool" -> <<Lit(IF value.v THEN "true" ELSE "false")>>
      [] value.py = "int" -> <<Number("int", value.v)>>
      [] value.py = "float" -> <<Number("float", value.v)>>
      [] value.py = "str" -> <<String(value.v)>>
      [] value.py \in {"list", "tuple"} ->
            <<Punct("[")>> \o json_dumps_items(value.v) \o <<Punct("]")>>
      [] value.py = "dict" ->
            <<Punct("{")>> \o json_dumps_members(value.v) \o <<Punct("}")>>

json_dumps_items(xs) ==
    IF xs = <<>> THEN <<>>
    ELSE json_dumps_value(Head(xs))
         \o (IF Tail(xs) = <<>> THEN <<>>
             ELSE <<Punct(",")>> \o json_dumps_items(Tail(xs)))

json_dumps_members(items) ==
    IF items = <<>> THEN <<>>
    ELSE <<String(IF Head(items).key.py = "str" THEN Head(items).key.v
                  ELSE ToString(Head(items).key.v)),
           Punct(":")>>
         \o json_dumps_value(Head(items).val)
         \o (IF Tail(items) = <<>> THEN <<>>
             ELSE <<Punct(",")>> \o json_dumps_members(Tail(items)))

json_dumps(value) == JsonText(json_dumps_value(value))

IsPunct(t, c) == t.tok = "punct" /\ t.v = c

\* json.loads: the value that starts at token i, and the place after it.
RECURSIVE json_parse_value(_, _), json_parse_items(_, _, _), json_parse_members(_, _, _)
json_parse_value(toks, i) ==
    CASE toks[i].tok = "lit" ->
            [val |-> IF toks[i].v = "null" THEN PyNone ELSE PyBool(toks[i].v = "true"),
             next |-> i + 1]
      [] toks[i].tok = "int" -> [val |-> PyInt(toks[i].v), next |-> i + 1]
      [] toks[i].tok = "float" -> [val |-> PyFloat(toks[i].v), next |-> i + 1]
      [] toks[i].tok = "string" -> [val |-> PyStr(toks[i].v), next |-> i + 1]
      [] IsPunct(toks[i], "[") -> json_parse_items(toks, i + 1, <<>>)
      [] IsPunct(toks[i], "{") -> json_parse_members(toks, i + 1, <<>>)

json_parse_items(toks, i, acc) ==
    IF IsPunct(toks[i], "]") THEN [val |-> PyList(acc), next |-> i + 1]
    ELSE LET e == json_parse_value(toks, i)
         IN IF IsPunct(toks[e.next], ",")
            THEN json_parse_items(toks, e.next + 1, Append(acc, e.val))
            ELSE [val |-> PyList(Append(acc, e.val)), next |-> e.next + 1]

json_parse_members(toks, i, acc) ==
    IF IsPunct(toks[i], "}") THEN [val |-> PyDict(acc), next |-> i + 1]
    ELSE LET e == json_parse_value(toks, i + 2)
             m == Item(PyStr(toks[i].v), e.val)
         IN IF IsPunct(toks[e.next], ",")
            THEN json_parse_members(toks, e.next + 1, Append(acc, m))
            ELSE [val |-> PyDict(Append(acc, m)), next |-> e.next + 1]

json_loads(value) == json_parse_value(value.text, 1).val

\* bool(value) of a stored INTEGER
to_bool(value) == PyBool(value.v # 0)

(* ------------------------------------------------------------- the codec *)
\* Table._to_row, lines 179-192: KeyError on a name outside the schema; None
\* stays None, the value of a JSON field becomes its JSON text, any other
\* value passes through.
_to_row(kwargs) ==
    IF \E k \in DOMAIN kwargs : k \notin field_map
    THEN [err |-> "KeyError", row |-> EmptyMap]
    ELSE [err |-> "ok",
          row |-> [k \in DOMAIN kwargs |->
                     IF kwargs[k] = Null(k) THEN Null(k)
                     ELSE IF _is_json_type(FieldTypes[k]) THEN json_dumps(kwargs[k])
                     ELSE kwargs[k]]]

\* A bug to tell apart: a bool field read back as the integer stored.
_from_row_no_bool(row) ==
    [f \in field_map |->
        IF row[f] = Null(f) THEN Null(f)
        ELSE IF _is_json_type(FieldTypes[f]) THEN json_loads(row[f])
        ELSE row[f]]

\* Table._from_row, lines 194-207: one attribute per field of the type; None
\* stays None, a JSON field is parsed, a bool field is bool(value), any other
\* value passes through.
_from_row(row) ==
    [f \in field_map |->
        IF row[f] = Null(f) THEN Null(f)
        ELSE IF _is_json_type(FieldTypes[f]) THEN json_loads(row[f])
        ELSE IF _is_bool_type(FieldTypes[f]) THEN to_bool(row[f])
        ELSE row[f]]

(* ---------------------------------------------------------- the storage *)
\* sqlite3 binds None, int (a bool is an int), float and str; nothing else.
sql_supported(value) == value.py \in {"NoneType", "bool", "int", "float", "str"}

sql_adapt(value) ==
    IF value.py = "bool" THEN PyInt(IF value.v THEN 1 ELSE 0) ELSE value

\* What a column of the declared storage type keeps of a value bound to it:
\* a REAL column turns an integer into a real, an INTEGER column a whole
\* real into an integer, a TEXT column a number into its text.
sql_affinity(sql_type, value) ==
    IF sql_type = "REAL" /\ value.py = "int" THEN PyFloat(2 * value.v)
    ELSE IF sql_type = "INTEGER" /\ value.py = "float" /\ value.v % 2 = 0
    THEN PyInt(value.v \div 2)
    ELSE IF sql_type = "TEXT" /\ value.py \in {"int", "float"}
    THEN PyStr(ToString(value.v))
    ELSE value

\* The value column f holds after value was bound to it.
sql_store(f, value) ==
    IF f \in TermFields
    THEN sql_affinity(_get_sqlite_type(FieldTypes[f]), sql_adapt(value))
    ELSE value

(* ------------------------------------------------------- the statements *)
\* A parameter bound to NULL never satisfies "col = ?".
Matches(r, conds) == \A k \in DOMAIN conds : conds[k] # None /\ r[k] = conds[k]

\* SELECT * FROM t [WHERE k = ? AND ...] [AND deleted_at IS NULL]
sql_select(t, conds, live_only) ==
    SelectSeq(t, LAMBDA r : Matches(r, conds) /\ (live_only => r.deleted_at = None))

\* INSERT INTO t (cols) VALUES (?...): a parameter sqlite3 cannot bind is
\* refused; columns left out are NULL; id is the primary key, so a second row
\* with a stored id is refused.
sql_insert(t, row) ==
    IF \E f \in DOMAIN row : f \in TermFields /\ ~sql_supported(row[f])
    THEN [err |-> "ProgrammingError", t |-> t]
    ELSE IF row.id \in Ids(t)
    THEN [err |-> "IntegrityError", t |-> t]
    ELSE [err |-> "ok",
          t |-> Append(t, [f \in field_map |->
                              IF f \in DOMAIN row THEN sql_store(f, row[f])
                              ELSE Null(f)])]

\* A bug to tell apart: an update that inserts the row it does not find.
sql_update_upsert(t, row, item_id) ==
    IF item_id = None \/ item_id \in Ids(t)
    THEN [i \in 1..Len(t) |->
            IF t[i].id = item_id
            THEN [f \in field_map |-> IF f \in DOMAIN row THEN row[f] ELSE t[i][f]]
            ELSE t[i]]
    ELSE Append(t, [f \in field_map |-> IF f = "id" THEN item_id ELSE Get(row, f)])

\* A bug to tell apart: the update without its WHERE clause.
sql_update_all_rows(t, row, item_id) ==
    [i \in 1..Len(t) |->
        [f \in field_map |-> IF f \in DOMAIN row THEN row[f] ELSE t[i][f]]]

\* A bug to tell apart: the update that passes over soft-deleted rows.
sql_update_live_only(t, row, item_id) ==
    [i \in 1..Len(t) |->
        IF item_id # None /\ t[i].id = item_id /\ t[i].deleted_at = None
        THEN [f \in field_map |-> IF f \in DOMAIN row THEN row[f] ELSE t[i][f]]
        ELSE t[i]]

\* UPDATE t SET k = ?, ... WHERE id = ?
sql_update(t, row, item_id) ==
    [i \in 1..Len(t) |->
        IF item_id # None /\ t[i].id = item_id
        THEN [f \in field_map |-> IF f \in DOMAIN row THEN row[f] ELSE t[i][f]]
        ELSE t[i]]

\* A bug to tell apart: the soft delete without its "deleted_at IS NULL".
sql_soft_delete_any(t, stamp, conds) ==
    [i \in 1..Len(t) |->
        IF Matches(t[i], conds) THEN [t[i] EXCEPT !.deleted_at = stamp] ELSE t[i]]

\* UPDATE t SET deleted_at = ? [WHERE k = ? AND ... AND] deleted_at IS NULL
sql_soft_delete(t, stamp, conds) ==
    [i \in 1..Len(t) |->
        IF Matches(t[i], conds) /\ t[i].deleted_at = None
        THEN [t[i] EXCEPT !.deleted_at = stamp]
        ELSE t[i]]

\* A bug to tell apart: the DELETE without its WHERE clause.
sql_delete_all(t, conds) == <<>>

\* DELETE FROM t [WHERE k = ? AND ...]
sql_delete(t, conds) == SelectSeq(t, LAMBDA r : ~Matches(r, conds))

(* ------------------------------------------------------------- the clock *)
\* _now(): the j-th clock read of a call; the clock never runs backwards and
\* has advanced by one tick before the reads named in ticks.
_now(st, ticks) ==
    [st EXCEPT !.k = st.k + 1,
               !.clk = st.clk + (IF st.k + 1 \in ticks THEN 1 ELSE 0)]

\* The running state of a handler: table, clock, uuid ordinal, clock reads so
\* far, instances collected, statements executed, outcome.
Start == [t |-> table, clk |-> now, nid |-> nextId, k |-> 0,
          res |-> <<>>, n |-> 0, err |-> "ok"]

Raise(st, e) == [st EXCEPT !.err = e]

(* ---------------------------------------------------------------- inputs *)
\* A positional argument: a dict, a dataclass instance (of the bound type or
\* of another one; data holds its attributes), or something else.
Dict(m) == [kind |-> "dict", bound |-> FALSE, data |-> m]
Instance(m) == [kind |-> "dataclass", bound |-> TRUE, data |-> m]
Other(m) == [kind |-> "dataclass", bound |-> FALSE, data |-> m]
NotARecord == [kind |-> "int", bound |-> FALSE, data |-> EmptyMap]

\* An instance of the bound type carries every field of the type.
Inst(id, stamp, name) ==
    Instance([f \in field_map |->
        IF f = "id" THEN id ELSE IF f = "name" THEN name ELSE stamp])

Batches(S) == UNION {[1..n -> S] : n \in 0..MaxItems}

(* ---------------------------------------------------------------- create *)
\* Table.create, lines 218-229: kwargs first, then the positional arguments;
\* any dataclass instance is read through the type's own non-auto fields.
create_records(kw, items) ==
    LET first == IF kw # EmptyMap THEN <<kw>> ELSE <<>>
        Bad(i) == IF items[i].kind = "dataclass"
                  THEN IF \E f \in field_map \ AUTO_FIELDS : f \notin DOMAIN items[i].data
                       THEN "AttributeError" ELSE "ok"
                  ELSE IF items[i].kind = "dict" THEN "ok" ELSE "TypeError"
        Rec(i) == IF items[i].kind = "dataclass"
                  THEN Restrict(items[i].data, field_map \ AUTO_FIELDS)
                  ELSE items[i].data
    IN IF \E i \in 1..Len(items) : Bad(i) # "ok"
       THEN [err |-> Bad(CHOOSE i \in 1..Len(items) :
                           Bad(i) # "ok" /\ \A j \in 1..(i-1) : Bad(j) = "ok"),
             records |-> <<>>]
       ELSE [err |-> "ok", records |-> first \o [i \in 1..Len(items) |-> Rec(i)]]

\* A bug to tell apart: the caller's id kept when the record carries one.
create_id_from_caller(record, st) ==
    IF Get(record, "id") # None THEN record.id ELSE st.nid

\* The id a record is inserted under: str(uuid.uuid4()), line 236.
create_id(record, st) == st.nid

\* The two timestamps of a new row, lines 237-240: one clock read each.
create_stamps(st, ticks) ==
    LET s1 == IF "created_at" \in field_map THEN _now(st, ticks) ELSE st
        s2 == IF "updated_at" \in field_map THEN _now(s1, ticks) ELSE s1
    IN [st |-> s2,
        row |-> (IF "created_at" \in field_map THEN [created_at |-> s1.clk] ELSE EmptyMap)
                @@ (IF "updated_at" \in field_map THEN [updated_at |-> s2.clk] ELSE EmptyMap)]

\* One pass of the loop, lines 232-250: strip the auto fields, encode, set the
\* auto fields, INSERT, SELECT by id, append the instance read back.
create_one(record, st, ticks) ==
    LET tr == _to_row(Restrict(record, (DOMAIN record) \ AUTO_FIELDS))
    IN IF tr.err # "ok" THEN Raise(st, tr.err)
       ELSE LET cs == create_stamps(st, ticks)
                s == cs.st
                row == [id |-> create_id(record, st)] @@ cs.row @@ tr.row
                ins == sql_insert(s.t, row)
            IN IF ins.err # "ok"
               THEN Raise([s EXCEPT !.nid = s.nid + 1, !.n = s.n + 1], ins.err)
               ELSE LET rows == sql_select(ins.t, [id |-> row.id], FALSE)
                    IN [s EXCEPT !.t = ins.t, !.nid = s.nid + 1, !.n = s.n + 2,
                                 !.res = IF rows # <<>>
                                         THEN Append(s.res, _from_row(rows[1]))
                                         ELSE s.res]

RECURSIVE create_loop(_, _, _)
create_loop(records, st, ticks) ==
    IF records = <<>> \/ st.err # "ok" THEN st
    ELSE create_loop(Tail(records), create_one(Head(records), st, ticks), ticks)

create(kw, items, ticks) ==
    LET c == create_records(kw, items)
    IN IF c.err # "ok" THEN Raise(Start, c.err)
       ELSE create_loop(c.records, Start, ticks)

(* ------------------------------------------------------------------ read *)
\* A bug to tell apart: a read that stops at the first row it finds.
read_first_row(t, include_deleted, page, per_page, kwargs) ==
    LET tr == IF kwargs # EmptyMap THEN _to_row(kwargs)
              ELSE [err |-> "ok", row |-> EmptyMap]
        rows == sql_select(t, tr.row, _has_soft_delete /\ ~include_deleted)
    IN IF tr.err # "ok" THEN [err |-> tr.err, rows |-> <<>>]
       ELSE [err |-> "ok",
             rows |-> IF rows = <<>> THEN <<>> ELSE <<_from_row(rows[1])>>]

\* Table.read, lines 272-297.  page is <<>> for None and <<p>> for a page p.
\* The result is the instances, or the error _to_row raised on a filter.
read(t, include_deleted, page, per_page, kwargs) ==
    LET tr == IF kwargs # EmptyMap THEN _to_row(kwargs)
              ELSE [err |-> "ok", row |-> EmptyMap]
        rows == sql_select(t, tr.row, _has_soft_delete /\ ~include_deleted)
        offset == (IF page[1] > 1 THEN page[1] - 1 ELSE 0) * per_page
        paged == IF page = <<>> THEN rows
                 ELSE SubSeq(rows, offset + 1,
                             IF offset + per_page < Len(rows)
                             THEN offset + per_page ELSE Len(rows))
    IN IF tr.err # "ok" THEN [err |-> tr.err, rows |-> <<>>]
       ELSE [err |-> "ok", rows |-> [i \in 1..Len(paged) |-> _from_row(paged[i])]]

(* ----------------------------------------------------------------- count *)
\* A bug to tell apart: the number of pages rounded down.
count_pages_floor(total, per_page) ==
    IF total > 0 THEN total \div per_page ELSE 0

\* pages = (total + per_page - 1) // per_page if total > 0 else 0, line 445
count_pages(total, per_page) ==
    IF total > 0 THEN (total + per_page - 1) \div per_page ELSE 0

\* Table.count, lines 426-447: SELECT COUNT(*) under the conditions of read.
count(t, include_deleted, per_page, kwargs) ==
    LET tr == IF kwargs # EmptyMap THEN _to_row(kwargs)
              ELSE [err |-> "ok", row |-> EmptyMap]
        total == Len(sql_select(t, tr.row, _has_soft_delete /\ ~include_deleted))
    IN IF tr.err # "ok"
       THEN [err |-> tr.err, total |-> 0, pages |-> 0, per_page |-> per_page]
       ELSE IF total > 0 /\ per_page = 0
       THEN [err |-> "ZeroDivisionError", total |-> 0, pages |-> 0, per_page |-> per_page]
       ELSE [err |-> "ok", total |-> total, pages |-> count_pages(total, per_page),
             per_page |-> per_page]

(* ---------------------------------------------------------------- update *)
\* A bug to tell apart: the keyword record appended after the positional ones.
update_records_kw_last(kw, items) ==
    LET last == IF kw # EmptyMap THEN <<kw>> ELSE <<>>
        Bad(i) == IF items[i].kind = "dataclass"
                  THEN IF \E f \in field_map : f \notin DOMAIN items[i].data
                       THEN "AttributeError" ELSE "ok"
                  ELSE IF items[i].kind = "dict" THEN "ok" ELSE "TypeError"
        Rec(i) == IF items[i].kind = "dataclass"
                  THEN Restrict(items[i].data, field_map)
                  ELSE items[i].data
    IN IF \E i \in 1..Len(items) : Bad(i) # "ok"
       THEN [err |-> Bad(CHOOSE i \in 1..Len(items) : Bad(i) # "ok"),
             records |-> <<>>]
       ELSE [err |-> "ok", records |-> [i \in 1..Len(items) |-> Rec(i)] \o last]

\* Table.update, lines 308-317: kwargs first, then the positional arguments;
\* any dataclass instance is read through every field of the type.
update_records(kw, items) ==
    LET first == IF kw # EmptyMap THEN <<kw>> ELSE <<>>
        Bad(i) == IF items[i].kind = "dataclass"
                  THEN IF \E f \in field_map : f \notin DOMAIN items[i].data
                       THEN "AttributeError" ELSE "ok"
                  ELSE IF items[i].kind = "dict" THEN "ok" ELSE "TypeError"
        Rec(i) == IF items[i].kind = "dataclass"
                  THEN Restrict(items[i].data, field_map)
                  ELSE items[i].data
    IN IF \E i \in 1..Len(items) : Bad(i) # "ok"
       THEN [err |-> Bad(CHOOSE i \in 1..Len(items) :
                           Bad(i) # "ok" /\ \A j \in 1..(i-1) : Bad(j) = "ok"),
             records |-> <<>>]
       ELSE [err |-> "ok", records |-> first \o [i \in 1..Len(items) |-> Rec(i)]]

\* A bug to tell apart: only id left out of the SET clause.
update_data_keeps_created(record) ==
    Restrict(record, (DOMAIN record) \ {"id"})

\* A bug to tell apart: deleted_at left in the SET clause.
update_data_keeps_deleted(record) ==
    Restrict(record, (DOMAIN record) \ {"id", "created_at"})

\* The fields an update may set, line 326: all but id, created_at, deleted_at.
update_data(record) ==
    Restrict(record, (DOMAIN record) \ {"id", "created_at", "deleted_at"})

\* The SET clause, lines 330-333: the caller's updated_at is dropped and, when
\* the type has the field, replaced by a clock read.
update_row(data, st, ticks) ==
    LET tr == _to_row(Restrict(data, (DOMAIN data) \ {"updated_at"}))
        s == IF "updated_at" \in field_map THEN _now(st, ticks) ELSE st
    IN IF tr.err # "ok" THEN [err |-> tr.err, st |-> st, row |-> EmptyMap]
       ELSE [err |-> "ok", st |-> s,
             row |-> IF "updated_at" \in field_map
                     THEN [updated_at |-> s.clk] @@ tr.row ELSE tr.row]

\* A bug to tell apart: an update with nothing to set refused as an error.
update_one_empty_is_error(record, st, ticks) ==
    IF "id" \notin DOMAIN record \/ Get(record, "id") = None
    THEN Raise(st, "ValueError")
    ELSE IF update_data(record) = EmptyMap /\ "updated_at" \notin field_map
    THEN Raise(st, "ValueError")
    ELSE LET ur == update_row(update_data(record), st, ticks)
             t2 == sql_update(ur.st.t, ur.row, record.id)
             rows == sql_select(t2, [id |-> record.id], FALSE)
         IN IF ur.err # "ok" THEN Raise(st, ur.err)
            ELSE IF ur.row = EmptyMap THEN Raise(st, "ValueError")
            ELSE [ur.st EXCEPT !.t = t2, !.n = ur.st.n + 2,
                               !.res = IF rows # <<>>
                                       THEN Append(ur.st.res, _from_row(rows[1]))
                                       ELSE ur.st.res]

\* One pass of the loop, lines 320-345.
update_one(record, st, ticks) ==
    IF "id" \notin DOMAIN record \/ Get(record, "id") = None
    THEN Raise(st, "ValueError")
    ELSE IF update_data(record) = EmptyMap /\ "updated_at" \notin field_map
    THEN st
    ELSE LET ur == update_row(update_data(record), st, ticks)
             t2 == sql_update(ur.st.t, ur.row, record.id)
             rows == sql_select(t2, [id |-> record.id], FALSE)
         IN IF ur.err # "ok" THEN Raise(st, ur.err)
            ELSE IF ur.row = EmptyMap THEN ur.st
            ELSE [ur.st EXCEPT !.t = t2, !.n = ur.st.n + 2,
                               !.res = IF rows # <<>>
                                       THEN Append(ur.st.res, _from_row(rows[1]))
                                       ELSE ur.st.res]

RECURSIVE update_loop(_, _, _)
update_loop(records, st, ticks) ==
    IF records = <<>> \/ st.err # "ok" THEN st
    ELSE update_loop(Tail(records), update_one(Head(records), st, ticks), ticks)

update(kw, items, ticks) ==
    LET c == update_records(kw, items)
    IN IF c.err # "ok" THEN Raise(Start, c.err)
       ELSE update_loop(c.records, Start, ticks)

(* ---------------------------------------------------------------- delete *)
\* Table.delete, lines 361-376: kwargs first; of a dataclass instance only
\* its id is used (getattr with a None default), and a None id is refused.
delete_records(kw, items) ==
    LET first == IF kw # EmptyMap THEN <<kw>> ELSE <<>>
        Bad(i) == IF items[i].kind = "dataclass"
                  THEN IF Get(items[i].data, "id") = None
                       THEN "ValueError" ELSE "ok"
                  ELSE IF items[i].kind = "dict" THEN "ok" ELSE "TypeError"
        Rec(i) == IF items[i].kind = "dataclass"
                  THEN [id |-> items[i].data.id]
                  ELSE items[i].data
    IN IF \E i \in 1..Len(items) : Bad(i) # "ok"
       THEN [err |-> Bad(CHOOSE i \in 1..Len(items) :
                           Bad(i) # "ok" /\ \A j \in 1..(i-1) : Bad(j) = "ok"),
             records |-> <<>>]
       ELSE [err |-> "ok", records |-> first \o [i \in 1..Len(items) |-> Rec(i)]]

\* A bug to tell apart: the rows read again after the mutation.
delete_found_reread(found, t_after) ==
    [i \in 1..Len(found) |-> _from_row(RowOf(t_after, found[i].id))]

\* What a delete returns for the rows it read before mutating, line 398.
delete_found(found, t_after) == found

\* A bug to tell apart: the DELETE statement whatever the hard flag says.
delete_stmt_always_hard(record, hard, st, ticks) ==
    LET row == _to_row(record).row
    IN IF row = EmptyMap THEN Raise(st, "OperationalError")
       ELSE [st EXCEPT !.t = sql_delete(st.t, row), !.n = st.n + 1]

\* A bug to tell apart: the soft UPDATE chosen by the hard flag alone, which
\* a table without a deleted_at column refuses.
delete_stmt_soft_unless_hard(record, hard, st, ticks) ==
    LET row == _to_row(record).row
        s == _now(st, ticks)
    IN IF ~hard
       THEN IF row = EmptyMap \/ ~_has_soft_delete THEN Raise(s, "OperationalError")
            ELSE [s EXCEPT !.t = sql_soft_delete(s.t, s.clk, row), !.n = s.n + 1]
       ELSE IF row = EmptyMap THEN Raise(st, "OperationalError")
            ELSE [st EXCEPT !.t = sql_delete(st.t, row), !.n = st.n + 1]

\* The mutation of one filter, lines 387-396.  With no condition at all the
\* statement text ends in "WHERE " and SQLite refuses it.
delete_stmt(record, hard, st, ticks) ==
    LET row == _to_row(record).row
        s == _now(st, ticks)
    IN IF _has_soft_delete /\ ~hard
       THEN IF row = EmptyMap THEN Raise(s, "OperationalError")
            ELSE [s EXCEPT !.t = sql_soft_delete(s.t, s.clk, row), !.n = s.n + 1]
       ELSE IF row = EmptyMap THEN Raise(st, "OperationalError")
            ELSE [st EXCEPT !.t = sql_delete(st.t, row), !.n = st.n + 1]

\* One pass of the batch loop, lines 381-398: read, then mutate, then collect
\* what was read.
delete_one(record, hard, st, ticks) ==
    LET found == read(st.t, hard, <<>>, DefaultPerPage, record)
        s1 == [st EXCEPT !.n = st.n + 1]
        s2 == delete_stmt(record, hard, s1, ticks)
    IN IF found.err # "ok" THEN Raise(st, found.err)
       ELSE IF found.rows = <<>> THEN s1
       ELSE IF s2.err # "ok" THEN s2
       ELSE [s2 EXCEPT !.res = s2.res \o delete_found(found.rows, s2.t)]

RECURSIVE delete_loop(_, _, _, _)
delete_loop(records, hard, st, ticks) ==
    IF records = <<>> \/ st.err # "ok" THEN st
    ELSE delete_loop(Tail(records), hard,
                     delete_one(Head(records), hard, st, ticks), ticks)

\* No filter and no record, lines 401-412: the whole table.
delete_all(hard, st, ticks) ==
    LET all_items == read(st.t, hard, <<>>, DefaultPerPage, EmptyMap).rows
        s1 == [st EXCEPT !.n = st.n + 1]
        s == _now(s1, ticks)
    IN IF all_items = <<>> THEN s1
       ELSE IF _has_soft_delete /\ ~hard
       THEN [s EXCEPT !.t = sql_soft_delete(s.t, s.clk, EmptyMap), !.n = s.n + 1,
                      !.res = delete_found(all_items, sql_soft_delete(s.t, s.clk, EmptyMap))]
       ELSE [s1 EXCEPT !.t = <<>>, !.n = s1.n + 1, !.res = all_items]

delete(kw, items, hard, ticks) ==
    LET c == delete_records(kw, items)
    IN IF c.err # "ok" THEN Raise(Start, c.err)
       ELSE IF c.records # <<>> THEN delete_loop(c.records, hard, Start, ticks)
       ELSE delete_all(hard, Start, ticks)

(* --------------------------------------------------------------- actions *)
\* What a call leaves behind: the table, the clock, the uuid ordinal, and the
\* record of the call.  A call that raised returns nothing.
Finish(op, kw, items, hard, out) ==
    /\ out.nid <= MaxIds + 1
    /\ table' = out.t
    /\ now' = out.clk
    /\ nextId' = out.nid
    /\ removed' = removed \cup (Ids(table) \ Ids(out.t))
    /\ call' = [op |-> op, kw |-> kw, items |-> items, hard |-> hard]
    /\ ret' = [err |-> out.err,
               value |-> IF out.err = "ok" THEN out.res ELSE <<>>,
               stmts |-> out.n]
    /\ table0' = table
    /\ UNCHANGED <<field_map, callers>>

NoCall == [op |-> "none", kw |-> EmptyMap, items |-> <<>>, hard |-> FALSE]
NoRet == [err |-> "ok", value |-> <<>>, stmts |-> 0]

\* Two callers of one table, each a thread or process of its own.  What a
\* caller holds between the statements of a call: where it is (pc), the call
\* and its arguments, the rows a delete read, the row a create or an update
\* wrote, and its result.  History: the ids of the rows its own statement
\* changed or removed, and whether a statement of the other caller changed
\* the table between two statements of this call.
Callers == {1, 2}
Idle ==
    [pc |-> "idle", op |-> "none", kw |-> EmptyMap, hard |-> FALSE, found |-> <<>>,
     wrote |-> EmptyMap, changed |-> {}, res |-> <<>>, foreign |-> FALSE]
NoCallers == [c \in Callers |-> Idle]

\* Which of the clock reads of a call see a new tick: the clock never passes
\* MaxClock.
Ticks(reads) ==
    {T \in SUBSET (1..reads) : Cardinality(T) <= MaxClock - now}

\* The ids a caller names in update and delete: of rows stored, removed or
\* not created yet.
TargetIds == 1..MaxIds

CreateKw ==
    {EmptyMap, [name |-> 1], [name |-> 1, bogus |-> 1],
     [id |-> NoSuchId, created_at |-> CallerStamp, updated_at |-> CallerStamp,
      deleted_at |-> CallerStamp, name |-> 1]}

CreateItems ==
    {Dict([name |-> 2]), Dict([name |-> 2, bogus |-> 1]),
     Inst(NoSuchId, CallerStamp, 2),
     Other([id |-> NoSuchId, name |-> 2]), Other([title |-> 1]), NotARecord}

Create ==
    /\ call.op = "none"
    /\ \E kw \in CreateKw, items \in Batches(CreateItems) :
        \E ticks \in Ticks(create(kw, items, {}).k) :
            \E out \in {create(kw, items, ticks)} :
                Finish("create", kw, items, FALSE, out)

UpdateKw ==
    {EmptyMap, [name |-> 1], [id |-> 1, name |-> 1, bogus |-> 1],
     [id |-> 1, created_at |-> CallerStamp, updated_at |-> CallerStamp,
      deleted_at |-> CallerStamp]}
    \cup {[id |-> i, name |-> 1] : i \in TargetIds}

UpdateItems ==
    {Dict([id |-> i, name |-> 2]) : i \in TargetIds}
    \cup {Inst(i, CallerStamp, 2) : i \in TargetIds \cup {None}}
    \cup {Dict([name |-> 2]), Dict([id |-> 1]), Dict([id |-> 1, name |-> 2, bogus |-> 1]),
          Other([id |-> 1, name |-> 2]), NotARecord}

Update ==
    /\ call.op = "none"
    /\ \E kw \in UpdateKw, items \in Batches(UpdateItems) :
        \E ticks \in Ticks(update(kw, items, {}).k) :
            \E out \in {update(kw, items, ticks)} :
                Finish("update", kw, items, FALSE, out)

DeleteKw ==
    {EmptyMap, [name |-> 1], [bogus |-> 1]} \cup {[id |-> i] : i \in TargetIds}

DeleteItems ==
    {Dict([id |-> i]) : i \in TargetIds}
    \cup {Inst(i, None, 2) : i \in TargetIds \cup {None}}
    \cup {Dict([name |-> 2]), Dict([bogus |-> 1]), Dict(EmptyMap),
          Other([id |-> 1]), NotARecord}

Delete ==
    /\ call.op = "none"
    /\ \E kw \in DeleteKw, items \in Batches(DeleteItems), hard \in BOOLEAN :
        \E ticks \in Ticks(delete(kw, items, hard, {}).k) :
            \E out \in {delete(kw, items, hard, ticks)} :
                Finish("delete", kw, items, hard, out)

\* The caller takes the result.  A table handle keeps nothing between calls:
\* every statement opens and closes its own connection (lines 158-166).
Return ==
    /\ call.op # "none"
    /\ call' = NoCall
    /\ ret' = NoRet
    /\ table0' = table
    /\ UNCHANGED <<field_map, table, now, nextId, removed, callers>>

Init ==
    /\ field_map = ModelFields
    /\ table = <<>>
    /\ now = 1
    /\ nextId = 1
    /\ removed = {}
    /\ call = NoCall
    /\ ret = NoRet
    /\ table0 = <<>>
    /\ callers = NoCallers

Next == Create \/ Update \/ Delete \/ Return

Spec == Init /\ [][Next]_vars

\* The same handle bound to any of the record types.
TypesInit ==
    /\ field_map \in Schemas
    /\ table = <<>>
    /\ now = 1
    /\ nextId = 1
    /\ removed = {}
    /\ call = NoCall
    /\ ret = NoRet
    /\ table0 = <<>>
    /\ callers = NoCallers

TypesSpec == TypesInit /\ [][Next]_vars

(* ------------------------------------------- values of declared types *)
\* Values that are not None: scalars as JSON holds them, and the lists and
\* dicts of up to two entries built from a set of values.
JsonScalars ==
    {PyBool(TRUE), PyBool(FALSE), PyInt(0), PyInt(1), PyFloat(3), PyStr(""), PyStr("a")}

ListsOf(S) ==
    {PyList(<<>>)} \cup {PyList(<<v>>) : v \in S} \cup {PyList(<<v, PyNone>>) : v \in S}

DictsOf(S) ==
    {PyDict(<<>>)} \cup {PyDict(<<Item(PyStr("a"), v)>>) : v \in S}
    \cup {PyDict(<<Item(PyStr("a"), v), Item(PyStr("b"), PyNone)>>) : v \in S}

JsonFlat == JsonScalars \cup {PyNone}
JsonNested == JsonFlat \cup ListsOf(JsonFlat) \cup DictsOf(JsonFlat)

\* Values json.dumps writes but JSON does not hold as they are: a dict with
\* an int key, a list with a tuple in it.
NotJson == {PyDict(<<Item(PyInt(1), PyStr("a"))>>), PyList(<<PyTuple(<<PyInt(1)>>)>>)}

\* What a caller gives a field declared with the class cls.
ValuesOf(cls) ==
    CASE cls = "int" -> {PyInt(0), PyInt(1)}
      [] cls = "str" -> {PyStr(""), PyStr("a")}
      [] cls = "float" -> {PyFloat(0), PyFloat(3)}
      [] cls = "bool" -> {PyBool(TRUE), PyBool(FALSE)}
      [] cls = "dict" -> DictsOf(JsonNested) \cup {NotJson_v \in NotJson : NotJson_v.py = "dict"}
      [] cls = "list" -> ListsOf(JsonNested) \cup {NotJson_v \in NotJson : NotJson_v.py = "list"}

DocValues(f) ==
    {PyNone} \cup
    (IF DocTypes[f].origin = "None" THEN ValuesOf(DocTypes[f].name)
     ELSE IF DocTypes[f].origin = "Union"
     THEN (IF DocTypes[f].args[1] \in {"dict", "list"}
           THEN {v \in ValuesOf(DocTypes[f].args[1]) : Len(v.v) <= 1}
           ELSE ValuesOf(DocTypes[f].args[1]))
     ELSE {PyList(<<>>), PyList(<<PyStr("a")>>)})

\* One value of each class, none of them None or empty.
Sample(cls) ==
    CASE cls = "int" -> PyInt(1)
      [] cls = "str" -> PyStr("a")
      [] cls = "float" -> PyFloat(3)
      [] cls = "bool" -> PyBool(TRUE)
      [] cls = "dict" -> PyDict(<<Item(PyStr("a"), PyList(<<>>))>>)
      [] cls = "list" -> PyList(<<PyDict(<<>>), PyBool(FALSE)>>)

\* create(f=v) for one field, and create with a value for every field
DocKw ==
    UNION {{(f :> v) : v \in DocValues(f)} : f \in TermFields}
    \cup {[f \in TermFields \ {"tags"} |-> Sample(inner_type(DocTypes[f]))]}

CreateDoc ==
    /\ call.op = "none"
    /\ Len(table) < MaxDocs
    /\ \E kw \in DocKw :
        \E out \in {create(kw, <<>>, {})} :
            Finish("create", kw, <<>>, FALSE, out)

CodecInit ==
    /\ field_map = DocFields
    /\ table = <<>>
    /\ now = 1
    /\ nextId = 1
    /\ removed = {}
    /\ call = NoCall
    /\ ret = NoRet
    /\ table0 = <<>>
    /\ callers = NoCallers

CodecNext == CreateDoc \/ Return

CodecSpec == CodecInit /\ [][CodecNext]_vars

(* ----------------------------------------------------- reading by pages *)
\* Filters of read and count: none, by name, by id, by a name that is None,
\* by a field the type does not have.
ReadFilters == {EmptyMap, [name |-> 1], [id |-> 1], [name |-> None], [bogus |-> 1]}

\* page: None, or a number (zero and a negative one included)
Pages == {<<>>} \cup {<<p>> : p \in (-1)..MaxPage}

\* Table.read as a call: one SELECT, nothing written.
Read ==
    /\ call.op = "none"
    /\ \E include_deleted \in BOOLEAN, page \in Pages, per_page \in 1..MaxPerPage,
          kwargs \in ReadFilters :
        \E out \in {read(table, include_deleted, page, per_page, kwargs)} :
            /\ call' = [op |-> "read", kw |-> kwargs, items |-> <<>>, hard |-> FALSE,
                        include_deleted |-> include_deleted, page |-> page,
                        per_page |-> per_page]
            /\ ret' = [err |-> out.err, value |-> out.rows,
                       stmts |-> IF out.err = "ok" THEN 1 ELSE 0]
    /\ table0' = table
    /\ UNCHANGED <<field_map, table, now, nextId, removed, callers>>

\* Table.count as a call: one SELECT COUNT(*); the value returned is a Count.
Count ==
    /\ call.op = "none"
    /\ \E include_deleted \in BOOLEAN, per_page \in 1..MaxPerPage, kwargs \in ReadFilters :
        \E out \in {count(table, include_deleted, per_page, kwargs)} :
            /\ call' = [op |-> "count", kw |-> kwargs, items |-> <<>>, hard |-> FALSE,
                        include_deleted |-> include_deleted, page |-> <<>>,
                        per_page |-> per_page]
            /\ ret' = [err |-> out.err,
                       value |-> [total |-> out.total, pages |-> out.pages,
                                  per_page |-> out.per_page],
                       stmts |-> IF out.err = "ok" THEN 1 ELSE 0]
    /\ table0' = table
    /\ UNCHANGED <<field_map, table, now, nextId, removed, callers>>

\* A table of up to MaxRows rows as creates and soft deletes at the first
\* reading of the clock leave it: ids in order of creation, any names, any
\* of the rows soft-deleted.
PageTables ==
    UNION {{t \in [1..n -> [id : 1..n, created_at : {1}, updated_at : {1},
                            deleted_at : {None, 1}, name : NameVals]] :
                \A i \in 1..n : t[i].id = i} : n \in 0..MaxRows}

PageInit ==
    /\ field_map = ModelFields
    /\ table \in PageTables
    /\ now = 1
    /\ nextId = Len(table) + 1
    /\ removed = {}
    /\ call = NoCall
    /\ ret = NoRet
    /\ table0 = table
    /\ callers = NoCallers

PageNext == Read \/ Count \/ Return

PageSpec == PageInit /\ [][PageNext]_vars

(* ----------------------------------------------------------- two callers *)
\* Every statement runs on a connection of its own and is committed before
\* the connection is closed (Table._sql, lines 156-166): a statement is one
\* step, and between two statements of a call the other caller may run its
\* own.  The Python code between two statements (the clock reads, the codec)
\* touches nothing shared and belongs to the statement that follows it.

\* The ids of the rows that a statement taking the table from t to t2 changed
\* or removed.
ChangedBy(t, t2) ==
    {id \in Ids(t) : id \notin Ids(t2) \/ RowOf(t2, id) # RowOf(t, id)}

\* The callers after caller c has run a statement that took the table from t
\* to t2 and left c as the record r: a caller between two statements of its
\* call has seen a foreign change when the table changed.
AfterStatement(c, r, t, t2) ==
    [o \in Callers |->
        IF o = c THEN r
        ELSE IF callers[o].pc \in {"inserted", "updated", "found"} /\ t2 # t
        THEN [callers[o] EXCEPT !.foreign = TRUE]
        ELSE callers[o]]

ConcCreateKw == {[name |-> 1]}
ConcUpdateKw == {[id |-> i, name |-> 2] : i \in TargetIds}
ConcDeleteKw == {EmptyMap} \cup {[id |-> i] : i \in TargetIds}

\* create(name=...), first statement: the INSERT of lines 236-245.
CreateInsert(c) ==
    /\ callers[c].pc = "idle"
    /\ nextId <= MaxIds
    /\ \E kw \in ConcCreateKw, ticks \in Ticks(2) :
        LET tr == _to_row(Restrict(kw, (DOMAIN kw) \ AUTO_FIELDS))
            cs == create_stamps(Start, ticks)
            row == [id |-> create_id(kw, Start)] @@ cs.row @@ tr.row
            ins == sql_insert(table, row)
        IN /\ table' = ins.t
           /\ now' = cs.st.clk
           /\ nextId' = nextId + 1
           /\ callers' = AfterStatement(c, [Idle EXCEPT !.pc = "inserted", !.op = "create",
                                                        !.kw = kw, !.wrote = row],
                                        table, ins.t)
    /\ UNCHANGED <<field_map, removed, call, ret, table0>>

\* create, second statement: the SELECT by id of lines 247-250; the instance
\* is appended only if the row is found.
CreateSelect(c) ==
    /\ callers[c].pc = "inserted"
    /\ LET rows == sql_select(table, [id |-> callers[c].wrote.id], FALSE)
       IN callers' = [callers EXCEPT ![c].pc = "done",
                                     ![c].res = IF rows # <<>> THEN <<_from_row(rows[1])>>
                                                ELSE <<>>]
    /\ UNCHANGED <<field_map, table, now, nextId, removed, call, ret, table0>>

\* update(id=..., name=...), first statement: the UPDATE of lines 326-340.
UpdateWrite(c) ==
    /\ callers[c].pc = "idle"
    /\ \E kw \in ConcUpdateKw, ticks \in Ticks(1) :
        LET ur == update_row(update_data(kw), Start, ticks)
            t2 == sql_update(table, ur.row, kw.id)
        IN /\ table' = t2
           /\ now' = ur.st.clk
           /\ callers' = AfterStatement(c, [Idle EXCEPT !.pc = "updated", !.op = "update",
                                                        !.kw = kw,
                                                        !.wrote = [id |-> kw.id] @@ ur.row,
                                                        !.changed = ChangedBy(table, t2)],
                                        table, t2)
    /\ UNCHANGED <<field_map, nextId, removed, call, ret, table0>>

\* update, second statement: the SELECT by id of lines 342-345.
UpdateSelect(c) ==
    /\ callers[c].pc = "updated"
    /\ LET rows == sql_select(table, [id |-> callers[c].wrote.id], FALSE)
       IN callers' = [callers EXCEPT ![c].pc = "done",
                                     ![c].res = IF rows # <<>> THEN <<_from_row(rows[1])>>
                                                ELSE <<>>]
    /\ UNCHANGED <<field_map, table, now, nextId, removed, call, ret, table0>>

\* delete(id=...) or delete(), soft or hard, first statement: the read of
\* line 383 or 401.  With nothing found the call is over (lines 384-385, 412).
DeleteRead(c) ==
    /\ callers[c].pc = "idle"
    /\ \E kw \in ConcDeleteKw, hard \in BOOLEAN :
        LET found == read(table, hard, <<>>, DefaultPerPage, kw).rows
        IN callers' = [callers EXCEPT ![c] =
                         [Idle EXCEPT !.pc = IF found = <<>> THEN "done" ELSE "found",
                                      !.op = "delete", !.kw = kw, !.hard = hard,
                                      !.found = found]]
    /\ UNCHANGED <<field_map, table, now, nextId, removed, call, ret, table0>>

\* delete, second statement: the UPDATE or DELETE of lines 387-396 for a
\* filter, of lines 403-411 for the whole table; what was read is returned.
DeleteMutate(c) ==
    /\ callers[c].pc = "found"
    /\ \E ticks \in Ticks(1) :
        LET me == callers[c]
            s == _now(Start, ticks)
            out == IF me.kw # EmptyMap THEN delete_stmt(me.kw, me.hard, Start, ticks)
                   ELSE IF _has_soft_delete /\ ~me.hard
                   THEN [s EXCEPT !.t = sql_soft_delete(table, s.clk, EmptyMap)]
                   ELSE [Start EXCEPT !.t = <<>>]
        IN /\ table' = out.t
           /\ now' = out.clk
           /\ removed' = removed \cup (Ids(table) \ Ids(out.t))
           /\ callers' = AfterStatement(c, [me EXCEPT !.pc = "done",
                                                      !.changed = ChangedBy(table, out.t),
                                                      !.res = delete_found(me.found, out.t)],
                                        table, out.t)
    /\ UNCHANGED <<field_map, nextId, call, ret, table0>>

\* The caller takes the result of its call.
CallerReturn(c) ==
    /\ callers[c].pc = "done"
    /\ callers' = [callers EXCEPT ![c] = Idle]
    /\ UNCHANGED <<field_map, table, now, nextId, removed, call, ret, table0>>

ConcNext ==
    \E c \in Callers :
        \/ CreateInsert(c)
        \/ CreateSelect(c)
        \/ UpdateWrite(c)
        \/ UpdateSelect(c)
        \/ DeleteRead(c)
        \/ DeleteMutate(c)
        \/ CallerReturn(c)

ConcSpec == Init /\ [][ConcNext]_vars

(* ---------------------------------------------------------------- claims *)
\* The records of the latest call in the order the caller gave them: the
\* keyword record, then the positional arguments.
CallInputs ==
    (IF call.kw # EmptyMap THEN <<call.kw>> ELSE <<>>)
        \o [i \in 1..Len(call.items) |-> call.items[i].data]

Live(t, id) == \E i \in 1..Len(t) : t[i].id = id /\ t[i].deleted_at = None

Stored(t, id) == \E i \in 1..Len(t) : t[i].id = id

\* read(**kwargs) and read(include_deleted=True, **kwargs) right after the call
ReadNow(kwargs) == read(table, FALSE, <<>>, DefaultPerPage, kwargs).rows
ReadAllNow(kwargs) == read(table, TRUE, <<>>, DefaultPerPage, kwargs).rows

\* The latest call was delete(id=X) or delete(id=X, hard=True), nothing else.
DeleteById ==
    /\ call.op = "delete"
    /\ call.items = <<>>
    /\ DOMAIN call.kw = {"id"}

SoftDeleteOfLiveRow ==
    /\ _has_soft_delete
    /\ DeleteById
    /\ ~call.hard
    /\ Live(table0, call.kw.id)

\* C1: on a type with deleted_at, after a default delete(id=X) of a live row X,
\* read(id=X) is empty and read(id=X, include_deleted=True) is exactly one
\* instance, that of X, with a non-null deleted_at.
C1_SoftDeleteVisibility ==
    SoftDeleteOfLiveRow =>
        /\ ReadNow(call.kw) = <<>>
        /\ Len(ReadAllNow(call.kw)) = 1
        /\ ReadAllNow(call.kw)[1].id = call.kw.id
        /\ ReadAllNow(call.kw)[1].deleted_at # None

C1_Witness == SoftDeleteOfLiveRow /\ ret.err = "ok" /\ Len(ret.value) = 1

\* C2: after delete(id=X, hard=True), of a live or of a soft-deleted row,
\* read(id=X, include_deleted=True) is empty, and the id of a removed row is
\* never stored again, whatever create, update or delete follows.
C2_HardDeleteIrreversible ==
    /\ (DeleteById /\ call.hard /\ ret.err = "ok") => ReadAllNow(call.kw) = <<>>
    /\ \A x \in removed : ReadAllNow([id |-> x]) = <<>>

\* an update naming a removed id has run and found nothing
C2_Witness ==
    /\ call.op = "update"
    /\ ret.err = "ok"
    /\ ret.stmts > 0
    /\ "id" \in DOMAIN call.kw
    /\ call.kw.id \in removed

\* The latest call was delete() on a table holding a row not yet deleted.
SoftDeleteAll ==
    /\ _has_soft_delete
    /\ call.op = "delete"
    /\ call.kw = EmptyMap
    /\ call.items = <<>>
    /\ ~call.hard
    /\ \E i \in 1..Len(table0) : table0[i].deleted_at = None

\* C3: delete() on a soft-delete table with a live row stamps every live row,
\* returns exactly the rows that were live, leaves the rows already deleted
\* as they were, and a delete() right after returns [] and changes nothing.
C3_CountAllSoftDelete ==
    SoftDeleteAll =>
        /\ ret.err = "ok"
        /\ Len(table) = Len(table0)
        /\ \A i \in 1..Len(table) :
            /\ table[i].deleted_at # None
            /\ table0[i].deleted_at # None => table[i] = table0[i]
            /\ table[i] = [table0[i] EXCEPT !.deleted_at = table[i].deleted_at]
        /\ [i \in 1..Len(ret.value) |-> ret.value[i].id]
             = LET live == SelectSeq(table0, LAMBDA r : r.deleted_at = None)
               IN [i \in 1..Len(live) |-> live[i].id]
        /\ delete(EmptyMap, <<>>, FALSE, {}).err = "ok"
        /\ delete(EmptyMap, <<>>, FALSE, {}).res = <<>>
        /\ delete(EmptyMap, <<>>, FALSE, {}).t = table

\* delete() met one live row and one row soft-deleted earlier
C3_Witness ==
    /\ SoftDeleteAll
    /\ Len(ret.value) = 1
    /\ Len(table0) = 2

SoftDeleteReturned ==
    /\ _has_soft_delete
    /\ call.op = "delete"
    /\ ~call.hard
    /\ ret.err = "ok"
    /\ ret.value # <<>>

\* C4 as stated: every instance a soft delete returns equals the row as stored
\* after the call, deleted_at included.
C4_ReturnsPostMutation ==
    SoftDeleteReturned =>
        \A i \in 1..Len(ret.value) :
            /\ Stored(table, ret.value[i].id)
            /\ ret.value[i] = _from_row(RowOf(table, ret.value[i].id))

\* C4 amended: every instance a soft delete returns is the row as it was read
\* before the mutation: its deleted_at is null, while the stored row now
\* holds a non-null deleted_at and agrees with it in every other field.
C4_ReturnsPreMutation ==
    SoftDeleteReturned =>
        \A i \in 1..Len(ret.value) :
            /\ Stored(table, ret.value[i].id)
            /\ Stored(table0, ret.value[i].id)
            /\ ret.value[i] = _from_row(RowOf(table0, ret.value[i].id))
            /\ ret.value[i].deleted_at = None
            /\ RowOf(table, ret.value[i].id).deleted_at # None
            /\ ret.value[i] = [RowOf(table, ret.value[i].id) EXCEPT !.deleted_at = None]

\* a batch soft delete returned two rows
C4_Witness == SoftDeleteReturned /\ call.kw # EmptyMap /\ Len(ret.value) = 2

\* Every positional argument is a dict or an instance of the bound type.
WellTyped ==
    \A i \in 1..Len(call.items) :
        call.items[i].kind = "dict" \/ call.items[i].bound

\* Every field name the caller gave is a field of the bound type.
KnownFields == \A i \in 1..Len(CallInputs) : DOMAIN CallInputs[i] \subseteq field_map

\* update got a record with no id or a None id, or delete an instance whose
\* id is None.
MissingId ==
    \/ /\ call.op = "update"
       /\ \E i \in 1..Len(CallInputs) : Get(CallInputs[i], "id") = None
    \/ /\ call.op = "delete"
       /\ \E i \in 1..Len(call.items) :
            call.items[i].kind = "dataclass" /\ Get(call.items[i].data, "id") = None

\* C5: an update with a record that has no id or a null id, at any place of the
\* batch, or a delete with an instance whose id is null, raises ValueError with
\* no statement executed and the table as it was before the call.
C5_MissingIdNoStatement ==
    (call.op \in {"update", "delete"} /\ WellTyped /\ KnownFields /\ MissingId) =>
        /\ ret.err = "ValueError"
        /\ ret.stmts = 0
        /\ table = table0

\* C6: a create, update or delete with a record naming a field outside the
\* schema raises the unknown-field error and leaves the table as it was before
\* the call, also when earlier records of the batch were valid.
C6_UnknownFieldNoPartialWrite ==
    (call.op \in {"create", "update", "delete"} /\ WellTyped /\ ~MissingId /\ ~KnownFields) =>
        /\ ret.err = "KeyError"
        /\ table = table0

\* C7: create, update and delete raise TypeError, with no statement executed,
\* whenever a positional argument is neither a dict nor an instance of the
\* bound type: an instance of another dataclass included.
C7_ForeignInputIsTypeError ==
    (call.op \in {"create", "update", "delete"} /\ ~WellTyped) =>
        /\ ret.err = "TypeError"
        /\ ret.stmts = 0

\* C8: every instance create returns on a type with the four auto fields has
\* a non-null id, a null deleted_at and a non-null created_at equal to its
\* updated_at, however the clock moves between two reads, and read(id=...)
\* right after returns exactly that instance.
C8_CreatedEqualsUpdated ==
    (call.op = "create" /\ ret.err = "ok" /\ AUTO_FIELDS \subseteq field_map) =>
        \A i \in 1..Len(ret.value) :
            /\ ret.value[i].id # None
            /\ ret.value[i].deleted_at = None
            /\ ret.value[i].created_at # None
            /\ ret.value[i].created_at = ret.value[i].updated_at
            /\ ReadNow([id |-> ret.value[i].id]) = <<ret.value[i]>>

\* C9: with a clock that never runs backwards, every stored row has
\* updated_at >= created_at; no call changes the created_at of a row it
\* keeps or moves its updated_at back; and every instance update returns has
\* an updated_at read from the clock, not the one the caller supplied, and
\* not earlier than the row's previous one.
C9_TimestampsMonotone ==
    /\ \A i \in 1..Len(table) : table[i].updated_at >= table[i].created_at
    /\ \A i \in 1..Len(table) :
        Stored(table0, table[i].id) =>
            /\ table[i].created_at = RowOf(table0, table[i].id).created_at
            /\ table[i].updated_at >= RowOf(table0, table[i].id).updated_at
    /\ (call.op = "update" /\ ret.err = "ok") =>
        \A i \in 1..Len(ret.value) :
            /\ ret.value[i].updated_at # CallerStamp
            /\ ret.value[i].updated_at <= now
            /\ ret.value[i].updated_at >= RowOf(table0, ret.value[i].id).updated_at
            /\ ret.value[i].created_at = RowOf(table0, ret.value[i].id).created_at

\* an update given a whole instance, with timestamps of the caller's, moved
\* updated_at forward
C9_Witness ==
    /\ call.op = "update"
    /\ ret.err = "ok"
    /\ Len(call.items) = 1
    /\ call.items[1].bound
    /\ call.items[1].data.updated_at = CallerStamp
    /\ Len(ret.value) = 1
    /\ ret.value[1].updated_at > RowOf(table0, ret.value[1].id).updated_at

\* C10: the stored rows have pairwise distinct non-null ids; a create returns
\* one instance per input, in input order with the keyword record first,
\* stores one new row for each, under an id no row had before, and never
\* under an id the caller supplied.
C10_DistinctIds ==
    /\ \A i, j \in 1..Len(table) :
        table[i].id # None /\ (i # j => table[i].id # table[j].id)
    /\ (call.op = "create" /\ ret.err = "ok") =>
        /\ Len(ret.value) = Len(CallInputs)
        /\ Len(table) = Len(table0) + Len(CallInputs)
        /\ \A i \in 1..Len(ret.value) :
            /\ ret.value[i].name = Get(CallInputs[i], "name")
            /\ ret.value[i].id # Get(CallInputs[i], "id")
            /\ ret.value[i].id \notin Ids(table0) \cup removed
            /\ table[Len(table0) + i] = ret.value[i]

\* a create of two records, the keyword one carrying an id of the caller's
C10_Witness ==
    /\ call.op = "create"
    /\ ret.err = "ok"
    /\ Len(ret.value) = 2
    /\ Get(call.kw, "id") = NoSuchId

\* The inputs of the latest call whose id names a row the table held when the
\* call began, in input order.
UpdateHits == SelectSeq(CallInputs, LAMBDA r : Get(r, "id") \in Ids(table0))

\* C11: an update that returns gives back, in input order (the keyword record
\* first), one instance for each input whose id names a stored row: it carries
\* the supplied name and an updated_at read from the clock, not earlier than
\* the row's previous one, and it is the row as stored unless a later input
\* names the same row; inputs naming no row add no instance and no row, and
\* every row no input names is as it was.
C11_BatchUpdateInOrder ==
    (call.op = "update" /\ ret.err = "ok") =>
        /\ Len(ret.value) = Len(UpdateHits)
        /\ \A i \in 1..Len(UpdateHits) :
            /\ ret.value[i].id = UpdateHits[i].id
            /\ "name" \in DOMAIN UpdateHits[i] => ret.value[i].name = UpdateHits[i].name
            /\ ret.value[i].updated_at >= RowOf(table0, UpdateHits[i].id).updated_at
            /\ ret.value[i].updated_at <= now
            /\ ret.value[i].updated_at # CallerStamp
            /\ (\A j \in (i+1)..Len(UpdateHits) : UpdateHits[j].id # UpdateHits[i].id)
                 => ret.value[i] = _from_row(RowOf(table, UpdateHits[i].id))
        /\ Len(table) = Len(table0)
        /\ \A k \in 1..Len(table) :
            /\ table[k].id = table0[k].id
            /\ (\A i \in 1..Len(UpdateHits) : UpdateHits[i].id # table[k].id)
                 => table[k] = table0[k]

\* a batch of two whose first input names no row and whose second names one
C11_Witness ==
    /\ call.op = "update"
    /\ ret.err = "ok"
    /\ Len(CallInputs) = 2
    /\ CallInputs[1].id \notin Ids(table0)
    /\ Len(ret.value) = 1
    /\ ret.value[1].id = CallInputs[2].id
    /\ ret.value[1].name = 2

\* C14: deleted_at is null in every row a create adds, whatever the caller
\* supplied; a stored deleted_at goes from null to non-null only in a default
\* (hard = false) delete and, once non-null, is kept as it is by every call
\* that keeps the row; a default count counts exactly the rows whose
\* deleted_at is null; and a default delete neither returns nor changes a row
\* whose deleted_at was non-null.
C14_DeletedAtMonotone ==
    /\ \A k \in 1..Len(table) :
        IF Stored(table0, table[k].id)
        THEN /\ RowOf(table0, table[k].id).deleted_at # None
                  => table[k].deleted_at = RowOf(table0, table[k].id).deleted_at
             /\ (RowOf(table0, table[k].id).deleted_at = None /\ table[k].deleted_at # None)
                  => (call.op = "delete" /\ ~call.hard)
        ELSE call.op = "create" /\ table[k].deleted_at = None
    /\ (call.op = "create" /\ ret.err = "ok") =>
        \A i \in 1..Len(ret.value) : ret.value[i].deleted_at = None
    /\ count(table, FALSE, DefaultPerPage, EmptyMap).total
         = Cardinality({k \in 1..Len(table) : table[k].deleted_at = None})
    /\ (call.op = "delete" /\ ~call.hard) =>
        /\ \A i \in 1..Len(ret.value) :
            RowOf(table0, ret.value[i].id).deleted_at = None
        /\ \A k \in 1..Len(table0) :
            table0[k].deleted_at # None =>
                Stored(table, table0[k].id) /\ RowOf(table, table0[k].id) = table0[k]

\* a default delete by name met a live row and a row soft-deleted earlier,
\* both of that name
C14_Witness ==
    /\ call.op = "delete"
    /\ ~call.hard
    /\ ret.err = "ok"
    /\ call.kw = [name |-> 1]
    /\ Len(ret.value) = 1
    /\ \E k \in 1..Len(table0) : table0[k].name = 1 /\ table0[k].deleted_at # None

\* C15: an update, whether it returns or raises, keeps the rows and their
\* order, keeps the id, created_at and deleted_at of every row, also of a row
\* named by an input that carries values for them, and leaves every row whose
\* id no input carries exactly as it was.
C15_UpdateFrame ==
    call.op = "update" =>
        /\ Len(table) = Len(table0)
        /\ \A k \in 1..Len(table) :
            /\ table[k].id = table0[k].id
            /\ table[k].created_at = table0[k].created_at
            /\ table[k].deleted_at = table0[k].deleted_at
            /\ (\A i \in 1..Len(CallInputs) : Get(CallInputs[i], "id") # table[k].id)
                 => table[k] = table0[k]

\* an update given a whole instance, with an id, a created_at and a deleted_at
\* of the caller's, rewrote one row of two
C15_Witness ==
    /\ call.op = "update"
    /\ ret.err = "ok"
    /\ call.kw = EmptyMap
    /\ Len(call.items) = 1
    /\ call.items[1].bound
    /\ call.items[1].data.created_at = CallerStamp
    /\ call.items[1].data.deleted_at = CallerStamp
    /\ Len(table0) = 2
    /\ Len(ret.value) = 1
    /\ table # table0

\* The ids of the rows the latest call changed or removed.
ChangedIds ==
    {x \in Ids(table0) : ~Stored(table, x) \/ RowOf(table, x) # RowOf(table0, x)}

\* C16: a delete that returns (soft or hard; by keyword filter, by a batch of
\* filters and instances, or table-wide) returns exactly the rows it changed
\* or removed, each once; a hard delete returns them as they were stored and
\* has removed them; no delete adds a row; and a delete that returns the empty
\* list has changed nothing.
C16_DeleteReturnsWhatItChanged ==
    (call.op = "delete" /\ ret.err = "ok") =>
        /\ {ret.value[i].id : i \in 1..Len(ret.value)} = ChangedIds
        /\ \A i, j \in 1..Len(ret.value) : i # j => ret.value[i].id # ret.value[j].id
        /\ call.hard =>
            \A i \in 1..Len(ret.value) :
                /\ ret.value[i] = _from_row(RowOf(table0, ret.value[i].id))
                /\ ~Stored(table, ret.value[i].id)
        /\ Ids(table) \subseteq Ids(table0)
        /\ ret.value = <<>> => table = table0

\* a batch whose keyword filter and whose positional filter match the same row
C16_Witness ==
    /\ call.op = "delete"
    /\ ret.err = "ok"
    /\ call.kw = [name |-> 1]
    /\ Len(call.items) = 1
    /\ Stored(table0, Get(call.items[1].data, "id"))
    /\ RowOf(table0, call.items[1].data.id).name = 1
    /\ Len(table0) = 2
    /\ Len(ret.value) = 1
    /\ ret.value[1].id = call.items[1].data.id

\* The latest call was update(id=X, name=v) on a row X whose deleted_at was
\* non-null.
UpdateOfSoftDeleted ==
    /\ call.op = "update"
    /\ call.items = <<>>
    /\ DOMAIN call.kw = {"id", "name"}
    /\ Stored(table0, call.kw.id)
    /\ RowOf(table0, call.kw.id).deleted_at # None

\* C19: update(id=X, name=v) on a soft-deleted row X returns one instance, the
\* row as stored after the call: name v, an updated_at read from the clock and
\* not earlier than the previous one, the deleted_at the row had; while the
\* default read, count and delete by that id find nothing.
C19_UpdateIgnoresSoftDelete ==
    UpdateOfSoftDeleted =>
        /\ ret.err = "ok"
        /\ Len(ret.value) = 1
        /\ ret.value[1] = _from_row(RowOf(table, call.kw.id))
        /\ ret.value[1].name = call.kw.name
        /\ ret.value[1].deleted_at = RowOf(table0, call.kw.id).deleted_at
        /\ ret.value[1].updated_at >= RowOf(table0, call.kw.id).updated_at
        /\ ret.value[1].updated_at <= now
        /\ ReadNow([id |-> call.kw.id]) = <<>>
        /\ count(table, FALSE, DefaultPerPage, [id |-> call.kw.id]).total = 0
        /\ delete([id |-> call.kw.id], <<>>, FALSE, {}).res = <<>>
        /\ delete([id |-> call.kw.id], <<>>, FALSE, {}).t = table

\* the update gave the soft-deleted row another name and a later updated_at
C19_Witness ==
    /\ UpdateOfSoftDeleted
    /\ ret.err = "ok"
    /\ RowOf(table0, call.kw.id).name # call.kw.name
    /\ RowOf(table, call.kw.id).name = call.kw.name
    /\ RowOf(table, call.kw.id).updated_at > RowOf(table0, call.kw.id).updated_at

\* An update input that carries an id and, besides it, reserved fields only.
ReservedOnly(r) ==
    /\ Get(r, "id") # None
    /\ DOMAIN r \subseteq AUTO_FIELDS

\* The inputs of the latest update that are not such inputs, and those of them
\* whose id names a row the table held.
EffectiveInputs == SelectSeq(CallInputs, LAMBDA r : ~ReservedOnly(r))
EffectiveHits == SelectSeq(EffectiveInputs, LAMBDA r : Get(r, "id") \in Ids(table0))

\* C18: on a type without updated_at, an update input that carries only
\* reserved fields is passed over: a call made of such inputs returns the
\* empty list with no statement executed and the table as it was, and in any
\* call that returns, two statements are executed for each other input, the
\* instances returned are those of the other inputs, in order, and a row only
\* such inputs name is unchanged.  On a type with updated_at every input of a
\* call that returns costs two statements, and an input of reserved fields
\* naming a stored row yields its instance, updated_at read from the clock.
C18_ReservedOnlyInputSkipped ==
    /\ (call.op = "update" /\ "updated_at" \notin field_map) =>
        /\ (WellTyped /\ \A i \in 1..Len(CallInputs) : ReservedOnly(CallInputs[i])) =>
            /\ ret.err = "ok"
            /\ ret.value = <<>>
            /\ ret.stmts = 0
            /\ table = table0
        /\ ret.err = "ok" =>
            /\ ret.stmts = 2 * Len(EffectiveInputs)
            /\ Len(ret.value) = Len(EffectiveHits)
            /\ \A i \in 1..Len(EffectiveHits) : ret.value[i].id = EffectiveHits[i].id
            /\ \A k \in 1..Len(table) :
                (\A i \in 1..Len(EffectiveInputs) : EffectiveInputs[i].id # table[k].id)
                    => table[k] = table0[k]
    /\ (call.op = "update" /\ "updated_at" \in field_map /\ ret.err = "ok") =>
        /\ ret.stmts = 2 * Len(CallInputs)
        /\ Len(ret.value) = Len(UpdateHits)
        /\ \A i \in 1..Len(UpdateHits) :
            ReservedOnly(UpdateHits[i]) =>
                /\ ret.value[i].id = UpdateHits[i].id
                /\ ret.value[i].updated_at # CallerStamp
                /\ ret.value[i].updated_at <= now
                /\ ret.value[i].updated_at >= RowOf(table0, UpdateHits[i].id).updated_at

\* on a type without updated_at, a batch whose first input carries reserved
\* fields only and names a stored row, and whose second input was applied
C18_Witness ==
    /\ call.op = "update"
    /\ "updated_at" \notin field_map
    /\ ret.err = "ok"
    /\ DOMAIN call.kw = AUTO_FIELDS
    /\ Stored(table0, call.kw.id)
    /\ Len(call.items) = 1
    /\ Len(ret.value) = 1
    /\ ret.value[1].id # call.kw.id
    /\ ret.value[1].name # RowOf(table0, ret.value[1].id).name

\* The filters of the latest delete: the keyword filter, then of an instance
\* its id and of a dict the dict.
DeleteFilters ==
    (IF call.kw # EmptyMap THEN <<call.kw>> ELSE <<>>)
        \o [i \in 1..Len(call.items) |->
              IF call.items[i].kind = "dataclass"
              THEN [id |-> Get(call.items[i].data, "id")]
              ELSE call.items[i].data]

\* Filters and page arguments of read and count to compare the two flags on.
FlagFilters == {EmptyMap, [name |-> 1], [id |-> 1], [bogus |-> 1]}
FlagPages == {<<>>, <<1>>, <<2>>}

\* C20: on a type without deleted_at, in every state read and count give the
\* same result with include_deleted true and false; a delete by keyword
\* filter of known fields returns, with hard set or not; every delete that
\* returns has removed exactly the rows its filters match (all rows when it
\* has no filter), keeps the others as they were, and returns the removed
\* rows as they were stored.
C20_NoSoftDeleteType ==
    ~_has_soft_delete =>
        /\ \A kwargs \in FlagFilters :
            /\ \A page \in FlagPages :
                read(table, TRUE, page, 1, kwargs) = read(table, FALSE, page, 1, kwargs)
            /\ count(table, TRUE, 1, kwargs) = count(table, FALSE, 1, kwargs)
        /\ (call.op = "delete" /\ call.items = <<>> /\ KnownFields) => ret.err = "ok"
        /\ (call.op = "delete" /\ ret.err = "ok") =>
            /\ table = SelectSeq(table0, LAMBDA r :
                    /\ DeleteFilters # <<>>
                    /\ \A i \in 1..Len(DeleteFilters) : ~Matches(r, DeleteFilters[i]))
            /\ {ret.value[i].id : i \in 1..Len(ret.value)} = Ids(table0) \ Ids(table)
            /\ Len(ret.value) = Len(table0) - Len(table)
            /\ \A i \in 1..Len(ret.value) :
                /\ ret.value[i] = _from_row(RowOf(table0, ret.value[i].id))
                /\ ret.value[i].id \in removed
                /\ ReadAllNow([id |-> ret.value[i].id]) = <<>>

\* on a type without deleted_at, a default delete by name removed one row of
\* two
C20_Witness ==
    /\ ~_has_soft_delete
    /\ call.op = "delete"
    /\ ~call.hard
    /\ ret.err = "ok"
    /\ call.kw = [name |-> 1]
    /\ Len(table0) = 2
    /\ Len(table) = 1
    /\ Len(ret.value) = 1

Min(a, b) == IF a < b THEN a ELSE b
Max(a, b) == IF a > b THEN a ELSE b

\* C12: for per_page >= 1, count raises exactly when the unpaginated read with
\* the same filters and flag does; its total is the number of instances that
\* read returns, its pages the least k with k * per_page >= total (0 for
\* total 0); and read(page=p, per_page=n) returns
\* min(n, max(0, total - (max(1, p) - 1) * n)) instances, the same as page 1
\* for p <= 1.
C12_CountAndPages ==
    /\ call.op = "count" =>
        LET all == read(table, call.include_deleted, <<>>, call.per_page, call.kw)
        IN /\ ret.err = all.err
           /\ ret.err = "ok" =>
               /\ ret.value.total = Len(all.rows)
               /\ ret.value.per_page = call.per_page
               /\ ret.value.pages * call.per_page >= ret.value.total
               /\ ret.value.pages >= 0
               /\ ret.value.pages > 0 =>
                    (ret.value.pages - 1) * call.per_page < ret.value.total
    /\ (call.op = "read" /\ call.page # <<>>) =>
        LET c == count(table, call.include_deleted, call.per_page, call.kw)
            p == Max(1, call.page[1])
        IN /\ ret.err = c.err
           /\ ret.err = "ok" =>
               /\ Len(ret.value)
                    = Min(call.per_page, Max(0, c.total - (p - 1) * call.per_page))
               /\ call.page[1] <= 1 =>
                    ret.value = read(table, call.include_deleted, <<1>>,
                                     call.per_page, call.kw).rows
               /\ call.page[1] > c.pages => ret.value = <<>>

\* a count of three rows by pages of two: the last page is not full
C12_Witness ==
    /\ call.op = "count"
    /\ ret.err = "ok"
    /\ call.per_page = 2
    /\ ret.value.total = 3
    /\ ret.value.pages = 2

\* A value JSON holds as it is: a scalar or None, a list of such values, a
\* dict of such values under text keys.
RECURSIVE IsJson(_)
IsJson(value) ==
    CASE value.py = "list" -> \A i \in 1..Len(value.v) : IsJson(value.v[i])
      [] value.py = "dict" ->
            \A i \in 1..Len(value.v) :
                value.v[i].key.py = "str" /\ IsJson(value.v[i].val)
      [] value.py = "tuple" -> FALSE
      [] OTHER -> TRUE

\* A field declared with a recognised type (a class or Optional of a class)
\* and given None or a value of that class.
Supplied(f, value) ==
    /\ DocTypes[f].origin \in {"None", "Union"}
    /\ value = PyNone \/ (value.py = inner_type(DocTypes[f]) /\ IsJson(value))

\* C13: a create that supplies values of the declared classes (bare or
\* Optional) returns one instance that holds, for every supplied field, the
\* value supplied: None as None, a dict or a list (empty ones too) equal to
\* the one given, a bool as a bool, an int, a str and a float as they were;
\* and read(id=...) right after returns that instance.
C13_RoundTrip ==
    (call.op = "create" /\ field_map = DocFields
        /\ \A f \in DOMAIN call.kw : Supplied(f, call.kw[f])) =>
        /\ ret.err = "ok"
        /\ Len(ret.value) = 1
        /\ \A f \in DOMAIN call.kw : ret.value[1][f] = call.kw[f]
        /\ ReadNow([id |-> ret.value[1].id]) = <<ret.value[1]>>

\* a create with a value for every field came back whole, its bool stored as
\* an integer and its dict as JSON text
C13_Witness ==
    /\ call.op = "create"
    /\ field_map = DocFields
    /\ ret.err = "ok"
    /\ DOMAIN call.kw = TermFields \ {"tags"}
    /\ ret.value[1].o_b = PyBool(TRUE)
    /\ ret.value[1].l = PyList(<<PyDict(<<>>), PyBool(FALSE)>>)
    /\ RowOf(table, ret.value[1].id).b = PyInt(1)
    /\ RowOf(table, ret.value[1].id).d
         = JsonText(<<Punct("{"), String("a"), Punct(":"), Punct("["), Punct("]"), Punct("}")>>)

(* ------------------------------------------------------------------- C17 *)
\* The ids of the instances a finished call of a caller returned.
ReturnedIds(me) == {me.res[i].id : i \in 1..Len(me.res)}

\* (a) a delete whose statement changed or removed a row that its result
\* does not hold, or whose result holds a row its statement left alone
DeleteMissesChanged(me) ==
    me.pc = "done" /\ me.op = "delete" /\ me.changed \ ReturnedIds(me) # {}
DeleteReturnsUnchanged(me) ==
    me.pc = "done" /\ me.op = "delete" /\ ReturnedIds(me) \ me.changed # {}

\* (b) a create that returns nothing for its one input; an update whose
\* result is not the row with the values it wrote
CreateReturnsFewer(me) ==
    me.pc = "done" /\ me.op = "create" /\ Len(me.res) < 1
ReadBackDiffers(me) ==
    /\ me.pc = "done" /\ me.op \in {"create", "update"}
    /\ Len(me.res) = 1
    /\ \E f \in DOMAIN me.wrote : me.res[1][f] # me.wrote[f]
UpdateReturnsOther(me) ==
    \/ me.op = "update" /\ ReadBackDiffers(me)
    \/ me.pc = "done" /\ me.op = "update" /\ me.res = <<>> /\ me.changed # {}

\* C17: with two callers interleaving statement by statement, a multi-statement
\* call is not atomic, and it goes wrong only through the other caller: a
\* delete whose result is not exactly the rows its statement changed, a create
\* that returns less than one instance per input or not what it inserted, an
\* update that returns other than what it wrote, each had a statement of the
\* other caller change the table between its two statements.  Every single
\* statement is atomic: a row a caller has just written is stored whole, with
\* the values written, until a statement of the other caller changes the table.
C17_NotAtomicAcrossStatements ==
    /\ \A c \in Callers :
        LET me == callers[c]
        IN /\ ( \/ DeleteMissesChanged(me) \/ DeleteReturnsUnchanged(me)
                \/ CreateReturnsFewer(me) \/ ReadBackDiffers(me)
                \/ UpdateReturnsOther(me) ) => me.foreign
           /\ (me.pc \in {"inserted", "updated"} /\ ~me.foreign
               /\ (me.pc = "updated" => me.changed # {}))
              => /\ me.wrote.id \in Ids(table)
                 /\ \A f \in DOMAIN me.wrote : RowOf(table, me.wrote.id)[f] = me.wrote[f]
    /\ \A i, j \in 1..Len(table) : table[i].id = table[j].id => i = j
    /\ \A i \in 1..Len(table) : DOMAIN table[i] = field_map

\* One caller's hard delete of the whole table read one row; the other caller
\* removed that row and inserted a new one before the DELETE ran; the delete
\* returns the row it did not remove and not the row it removed, and the
\* create of the new row returns nothing.
C17_Witness ==
    \E d \in Callers, w \in Callers :
        /\ d # w
        /\ DeleteMissesChanged(callers[d])
        /\ DeleteReturnsUnchanged(callers[d])
        /\ callers[d].foreign
        /\ CreateReturnsFewer(callers[w])
        /\ callers[w].foreign

\* The other half of (b): an update returns a row that is not what it wrote.
UpdateReturnedOtherThanWritten ==
    \E c \in Callers : UpdateReturnsOther(callers[c]) /\ callers[c].foreign

====
